---- MODULE Spec2Model ----
(***************************************************************************)
(* Model of the Zero-Trust gateway in src/lambda_function.py: the decision *)
(* pipeline of lambda_handler, the policy engine client _opa_eval and the  *)
(* one-time readiness check _opa_preflight, run by concurrent invocations  *)
(* that share the module-level flag OPA_OK.                                *)
(*                                                                         *)
(* Strings are sequences of one-character strings, so that startswith,     *)
(* split, upper and slicing are computed as the code computes them.        *)
(***************************************************************************)
EXTENDS Integers, Sequences, FiniteSets, TLC

\* Concurrent invocations of the handler in one process.
NumThreads == 2
Threads == 1..NumThreads

\* ---------------------------------------------------------------- strings

StartsWith(s, p) ==
    /\ Len(s) >= Len(p)
    /\ SubSeq(s, 1, Len(p)) = p

\* s[n:] of Python (n counted from 0)
Slice(s, n) == IF n >= Len(s) THEN <<>> ELSE SubSeq(s, n + 1, Len(s))

UpperChar(c) ==
    CASE c = "g" -> "G"
      [] c = "e" -> "E"
      [] c = "t" -> "T"
      [] c = "p" -> "P"
      [] c = "o" -> "O"
      [] c = "s" -> "S"
      [] OTHER   -> c

Upper(s) == [i \in 1..Len(s) |-> UpperChar(s[i])]

\* position of the first blank of s, 0 when there is none
RECURSIVE FirstBlank(_, _)
FirstBlank(s, i) ==
    IF i > Len(s) THEN 0
    ELSE IF s[i] = " " THEN i
    ELSE FirstBlank(s, i + 1)

\* auth.split(" ", 1)[1]
SplitToken(auth) == Slice(auth, FirstBlank(auth, 1))

BearerPrefix == <<"B", "e", "a", "r", "e", "r", " ">>
BasicPrefix  == <<"B", "a", "s", "i", "c", " ">>

\* ---------------------------------------------------------------- config

APP_CLIENT_ID == "app"

\* ---------------------------------------------------------------- tokens
\* A bearer token is named by one character; TokenInfo describes the JWT
\* it stands for, as seen by the PyJWT calls of lambda_handler.

TokenChars == {"g", "m", "p", "n", "k", "s", "x", "i", "c"}

GoodToken ==
    [parse |-> "ok", iss |-> TRUE, kid |-> "known", sig |-> "ok",
     expired |-> FALSE, token_use |-> "access", client_id |-> APP_CLIENT_ID]

TokenInfo(tok) ==
    CASE tok = <<"g">> -> GoodToken
      [] tok = <<"m">> -> [GoodToken EXCEPT !.parse = "segments"]
      [] tok = <<"p">> -> [GoodToken EXCEPT !.parse = "padding"]
      [] tok = <<"n">> -> [GoodToken EXCEPT !.iss = FALSE]
      [] tok = <<"k">> -> [GoodToken EXCEPT !.kid = "unknown"]
      [] tok = <<"s">> -> [GoodToken EXCEPT !.sig = "bad"]
      [] tok = <<"x">> -> [GoodToken EXCEPT !.expired = TRUE]
      [] tok = <<"i">> -> [GoodToken EXCEPT !.token_use = "id"]
      [] tok = <<"c">> -> [GoodToken EXCEPT !.client_id = "other"]
      [] OTHER         -> [GoodToken EXCEPT !.parse = "segments"]

\* ---------------------------------------------------------------- headers
\* The headers entry of the event: null (absent or None) or a map in which
\* a missing key and an empty value are both <<>>.

Hdr(u, l) == [null |-> FALSE, Authorization |-> u, authorization |-> l]

Headers ==
    {[null |-> TRUE, Authorization |-> <<>>, authorization |-> <<>>],
     Hdr(<<>>, <<>>),
     Hdr(BasicPrefix \o <<"g">>, <<>>),
     Hdr(<<"B", "e", "a", "r", "e", "r">>, <<>>),
     Hdr(<<"b", "e", "a", "r", "e", "r", " ", "g">>, <<>>),
     Hdr(BearerPrefix, <<>>),
     Hdr(<<>>, BearerPrefix \o <<"g">>)}
    \cup {Hdr(BearerPrefix \o <<c>>, <<>>) : c \in TokenChars}

\* h = event.get("headers") or {};
\* h.get("Authorization") or h.get("authorization") or ""
_auth_header(h) ==
    IF h.null THEN <<>>
    ELSE IF h.Authorization # <<>> THEN h.Authorization
    ELSE h.authorization

\* ---------------------------------------------------------------- exceptions

NoExc == [type |-> "none", msg |-> ""]
Exc(ty, m) == [type |-> ty, msg |-> m]

\* jwt.exceptions: DecodeError, InvalidSignatureError, ExpiredSignatureError
\* derive from InvalidTokenError; PyJWKClientError derives from PyJWTError only.
IsInvalidTokenError(ty) ==
    ty \in {"InvalidTokenError", "DecodeError", "InvalidSignatureError",
            "ExpiredSignatureError"}

NoBody == [message |-> "", detail |-> "", method |-> <<>>, path |-> <<>>,
           claims |-> <<>>]
NoResp == [statusCode |-> 0, body |-> NoBody]
Resp(code, b) == [statusCode |-> code, body |-> b]
Msg(m) == [NoBody EXCEPT !.message = m]

\* the except clauses of lambda_handler, in their order
HandleExceptionOpen(e) ==
    IF e.type = "ExpiredSignatureError"
    THEN Resp(401, Msg("Token expired"))
    ELSE IF IsInvalidTokenError(e.type)
    THEN Resp(401, [Msg("Invalid token: ") EXCEPT !.detail = e.msg])
    ELSE IF e.type = "TimeoutExpired"
    THEN Resp(403, Msg("Denied by policy (OPA timeout)"))
    ELSE Resp(200, Msg("Internal error"))

HandleException(e) ==
    IF e.type = "ExpiredSignatureError"
    THEN Resp(401, Msg("Token expired"))
    ELSE IF IsInvalidTokenError(e.type)
    THEN Resp(401, [Msg("Invalid token: ") EXCEPT !.detail = e.msg])
    ELSE IF e.type = "TimeoutExpired"
    THEN Resp(403, Msg("Denied by policy (OPA timeout)"))
    ELSE Resp(500, Msg("Internal error"))

\* ---------------------------------------------------------------- request normalizer
\* The parts of the event _normalize_path reads.  rc, http: "absent" (key
\* missing), "null" (JSON null) or "dict"; method, rawPath, stage: <<>> when
\* missing, null or empty.

Get  == <<"g", "e", "t">>
Post == <<"P", "O", "S", "T">>
GET  == <<"G", "E", "T">>
Root == <<"/">>

Contexts ==
    {[rc |-> "absent", http |-> "absent", method |-> <<>>, rawPath |-> <<>>,
      stage |-> <<>>],
     [rc |-> "null", http |-> "absent", method |-> <<>>, rawPath |-> Root,
      stage |-> <<>>],
     [rc |-> "dict", http |-> "null", method |-> <<>>, rawPath |-> Root,
      stage |-> <<>>],
     [rc |-> "dict", http |-> "absent", method |-> <<>>, rawPath |-> Root,
      stage |-> <<"p">>],
     [rc |-> "dict", http |-> "dict", method |-> Get, rawPath |-> <<"/", "p">>,
      stage |-> <<"p">>],
     [rc |-> "dict", http |-> "dict", method |-> Post,
      rawPath |-> <<"/", "p", "/", "i">>, stage |-> <<"p">>],
     [rc |-> "dict", http |-> "dict", method |-> Post,
      rawPath |-> <<"/", "i">>, stage |-> <<>>]}

NormOk(m, p) == [ok |-> TRUE, method |-> m, path |-> p, exc |-> NoExc]
NormRaise(e) == [ok |-> FALSE, method |-> <<>>, path |-> <<>>, exc |-> e]

NoneHasNoGet == Exc("AttributeError", "'NoneType' object has no attribute 'get'")

_normalize_path(c) ==
    IF c.rc = "null" \/ (c.rc = "dict" /\ c.http = "null")
    THEN NormRaise(NoneHasNoGet)
    ELSE
      LET method   == Upper(IF c.method # <<>> THEN c.method ELSE GET)
          raw_path == IF c.rawPath # <<>> THEN c.rawPath ELSE Root
          stage    == IF c.rc = "dict" THEN c.stage ELSE <<>>
          rest     == Slice(raw_path, Len(stage) + 1)
          path     == IF stage # <<>> /\ StartsWith(raw_path, <<"/">> \o stage)
                      THEN (IF rest # <<>> THEN rest ELSE Root)
                      ELSE raw_path
      IN  NormOk(method, path)

\* ---------------------------------------------------------------- policy engine
\* What the engine subprocess does with one "eval": it runs out of time, or
\* exits with a return code and a stdout.  A stdout is unparsable, or a JSON
\* document of one of the shapes below; value is the JSON value at
\* result[0].expressions[0].value.

JBool(b) == [t |-> "bool", b |-> b, s |-> "", n |-> 0]
JStr(s)  == [t |-> "str", b |-> FALSE, s |-> s, n |-> 0]
JNum(n)  == [t |-> "num", b |-> FALSE, s |-> "", n |-> n]
JNull    == [t |-> "null", b |-> FALSE, s |-> "", n |-> 0]

Stdout(sh, v) == [shape |-> sh, value |-> v]

Stdouts ==
    {Stdout(sh, JNull) : sh \in {"unparsable", "emptyresult", "novalue"}}
    \cup
    {Stdout("full", v) : v \in {JBool(TRUE), JBool(FALSE), JStr("no"), JNum(0)}}

EngineRun(k, rc, out) == [kind |-> k, rc |-> rc, stdout |-> out]
NoEngine == EngineRun("none", 0, Stdout("unparsable", JNull))

EngineOutcomes ==
    {EngineRun("timeout", 0, Stdout("unparsable", JNull)),
     EngineRun("exit", 1, Stdout("unparsable", JNull))}
    \cup {EngineRun("exit", 0, o) : o \in Stdouts}

\* bool(v) of Python
PyBool(v) ==
    CASE v.t = "bool" -> v.b
      [] v.t = "str"  -> v.s # ""
      [] v.t = "num"  -> v.n # 0
      [] OTHER        -> FALSE

\* json.loads(stdout) and out["result"][0]["expressions"][0]["value"]
ParseFault(out) ==
    CASE out.shape = "unparsable"  -> Exc("JSONDecodeError", "Expecting value")
      [] out.shape = "noresult"    -> Exc("KeyError", "'result'")
      [] out.shape = "emptyresult" -> Exc("IndexError", "list index out of range")
      [] out.shape = "noexpr"      -> Exc("KeyError", "'expressions'")
      [] out.shape = "novalue"     -> Exc("KeyError", "'value'")
      [] OTHER                     -> NoExc

\* ---------------------------------------------------------------- preflight checks
\* Outcomes of the three checks of _opa_preflight: os.stat of the binary
\* and its mode bits, the "version" subprocess, os.path.exists of the policy.

PfSteps == <<"stat", "version", "policy">>

PfOutcomes(step) ==
    CASE step = "stat"    -> {"missing", "noexec", "ok"}
      [] step = "version" -> {"timeout", "nonzero", "ok"}
      [] OTHER            -> {"absent", "ok"}

\* the exception a check raises inside the try block, NoExc when it passes
PreflightCheckLax(step, outcome) ==
    IF step = "version" THEN NoExc
    ELSE IF outcome = "ok" THEN NoExc
    ELSE Exc("FileNotFoundError", outcome)

PreflightCheck(step, outcome) ==
    CASE outcome = "ok"      -> NoExc
      [] outcome = "missing" -> Exc("FileNotFoundError", "No such file: opa")
      [] outcome = "noexec"  -> Exc("RuntimeError", "opa/opa is not executable")
      [] outcome = "timeout" -> Exc("TimeoutExpired", "opa version timed out")
      [] outcome = "nonzero" -> Exc("RuntimeError", "opa version rc=1")
      [] OTHER               -> Exc("FileNotFoundError", "policy not found")

\* except Exception as e: raise RuntimeError(f"OPA preflight failed: {e}")
PreflightWrap(e) == Exc("RuntimeError", e.msg)

NoChecks == [i \in 1..3 |-> "none"]

\* ---------------------------------------------------------------- state

VARIABLES
    ZTA_ENFORCE,  \* module configuration, fixed when the process starts
    OPA_OK,       \* module-level readiness flag
    pc,           \* position of each invocation in lambda_handler
    auth,         \* value returned by _auth_header(event)
    token,        \* auth.split(" ", 1)[1]
    query,        \* (method, path) of the policy query not yet handed to the engine
    exc,          \* exception caught by lambda_handler
    resp,         \* response returned by lambda_handler
    pfSeen,       \* outcomes of the preflight checks run by this invocation
    engine,       \* what the engine subprocess did for this invocation
    log,          \* decision records printed by _opa_eval for this invocation
    tr            \* stages this invocation has entered and completed

vars == <<ZTA_ENFORCE, OPA_OK, pc, auth, token, query, exc, resp, pfSeen,
          engine, log, tr>>

NoTrace == [parseRun |-> FALSE, keyFetch |-> "none", verifyRun |-> FALSE,
            verified |-> FALSE, bindRun |-> FALSE, bound |-> FALSE,
            preflightRun |-> FALSE, engineStarts |-> 0, verdict |-> "none"]

NoQuery == NormOk(<<>>, <<>>)

Init ==
    /\ ZTA_ENFORCE \in BOOLEAN
    /\ OPA_OK = FALSE
    /\ pc = [t \in Threads |-> "idle"]
    /\ auth = [t \in Threads |-> <<>>]
    /\ token = [t \in Threads |-> <<>>]
    /\ query = [t \in Threads |-> NoQuery]
    /\ exc = [t \in Threads |-> NoExc]
    /\ resp = [t \in Threads |-> NoResp]
    /\ pfSeen = [t \in Threads |-> NoChecks]
    /\ engine = [t \in Threads |-> NoEngine]
    /\ log = [t \in Threads |-> <<>>]
    /\ tr = [t \in Threads |-> NoTrace]

\* ---------------------------------------------------------------- lambda_handler
\* An invocation is idle, or has returned ("done"), or is inside
\* _opa_eval; the lines of lambda_handler before the call of _opa_eval
\* touch no shared state and are one step.

Free(t) == pc[t] = "idle"

\* the state of a fresh invocation; r is what the step found out
Fresh == [next |-> "done", auth |-> <<>>, token |-> <<>>, query |-> NoQuery,
          exc |-> NoExc, resp |-> NoResp, tr |-> NoTrace]

Start(t, r) ==
    /\ pc' = [pc EXCEPT ![t] = r.next]
    /\ auth' = [auth EXCEPT ![t] = r.auth]
    /\ token' = [token EXCEPT ![t] = r.token]
    /\ query' = [query EXCEPT ![t] = r.query]
    /\ exc' = [exc EXCEPT ![t] = r.exc]
    /\ resp' = [resp EXCEPT ![t] = r.resp]
    /\ tr' = [tr EXCEPT ![t] = r.tr]
    /\ pfSeen' = [pfSeen EXCEPT ![t] = NoChecks]
    /\ engine' = [engine EXCEPT ![t] = NoEngine]
    /\ log' = [log EXCEPT ![t] = <<>>]
    /\ UNCHANGED <<ZTA_ENFORCE, OPA_OK>>

\* an exception reaches the except clauses of lambda_handler
Caught(r, e) == [r EXCEPT !.exc = e, !.resp = HandleException(e)]

\* if not ZTA_ENFORCE: the baseline answer built from _normalize_path(event)
BaselineResult(c) ==
    LET n == _normalize_path(c) IN
      IF n.ok
      THEN [Fresh EXCEPT !.resp = Resp(200, [Msg("baseline") EXCEPT
                                      !.method = n.method, !.path = n.path])]
      ELSE Caught(Fresh, n.exc)

BaselineResults == {BaselineResult(c) : c \in Contexts}

Baseline(t) ==
    /\ Free(t)
    /\ ~ZTA_ENFORCE
    /\ \E r \in BaselineResults : Start(t, r)

HasBearerAlways(a) == TRUE

\* auth.startswith("Bearer ")
HasBearer(a) == StartsWith(a, BearerPrefix)

\* jwt.decode(token, options={"verify_signature": False, ...})
ParseFaultOf(info) ==
    CASE info.parse = "segments" -> Exc("DecodeError", "Not enough segments")
      [] info.parse = "padding"  -> Exc("DecodeError", "Invalid header padding")
      [] OTHER                   -> NoExc

\* PyJWKClient(...).get_signing_key_from_jwt(token): the fetch of the
\* issuer's key set, then the lookup of the token's key identifier
KeyFault(info, net) ==
    IF net # "ok"
    THEN Exc("PyJWKClientConnectionError", "Fail to fetch data from the url")
    ELSE IF info.kid # "known"
    THEN Exc("PyJWKClientError", "Unable to find a signing key that matches")
    ELSE NoExc

\* decode(token, signing_key, algorithms=["RS256"], issuer=iss, ...):
\* the signature first, then the expiry
VerifyFault(info) ==
    IF info.sig # "ok"
    THEN Exc("InvalidSignatureError", "Signature verification failed")
    ELSE IF info.expired
    THEN Exc("ExpiredSignatureError", "Signature has expired")
    ELSE NoExc

\* the identity binding tests on the verified claims; NoResp when both pass
BindingDenial(info) ==
    IF info.token_use # "access"
    THEN Resp(401, [Msg("Wrong token type") EXCEPT !.detail = info.token_use])
    ELSE IF info.client_id # APP_CLIENT_ID
    THEN Resp(401, [Msg("Client mismatch") EXCEPT !.detail = info.client_id])
    ELSE NoResp

\* lambda_handler with enforcement on, from _auth_header to the call of
\* _opa_eval: h the headers of the event, net what the key-set fetch does,
\* c the parts of the event _normalize_path reads
Gates(h, net, c) ==
    LET a     == _auth_header(h)
        tok   == SplitToken(a)
        info  == TokenInfo(tok)
        r0    == [Fresh EXCEPT !.auth = a]
        r1    == [r0 EXCEPT !.token = tok, !.tr.parseRun = TRUE]
        r2    == [r1 EXCEPT !.tr.verifyRun = TRUE, !.tr.keyFetch = net]
        r3    == [r2 EXCEPT !.tr.verified = TRUE, !.tr.bindRun = TRUE]
        r4    == [r3 EXCEPT !.tr.bound = TRUE]
        n     == _normalize_path(c)
    IN  IF ~HasBearer(a)
        THEN [r0 EXCEPT !.resp = Resp(401, Msg("Missing Bearer token"))]
        ELSE IF ParseFaultOf(info) # NoExc
        THEN Caught(r1, ParseFaultOf(info))
        ELSE IF ~info.iss
        THEN [r1 EXCEPT !.resp = Resp(401, Msg("Missing iss claim"))]
        ELSE IF net = "hang"
        THEN [r2 EXCEPT !.next = "blocked"]
        ELSE IF KeyFault(info, net) # NoExc
        THEN Caught(r2, KeyFault(info, net))
        ELSE IF VerifyFault(info) # NoExc
        THEN Caught(r2, VerifyFault(info))
        ELSE IF BindingDenial(info) # NoResp
        THEN [r3 EXCEPT !.resp = BindingDenial(info)]
        ELSE IF ~n.ok
        THEN Caught(r4, n.exc)
        ELSE [r4 EXCEPT !.query = n, !.next = "preflight"]

\* What the fetch of <iss>/.well-known/jwks.json does.  PyJWKClient is built
\* with the url alone: no timeout is passed, so whether an unanswered fetch
\* is ever given up ("timeout") or waits on the socket for ever ("hang") is
\* left to the installed library and to the peer.
KeyFetches == {"ok", "timeout", "hang"}

GateResults ==
    {Gates(h, net, c) : h \in Headers, net \in KeyFetches, c \in Contexts}

Invoke(t) ==
    /\ Free(t)
    /\ ZTA_ENFORCE
    /\ \E r \in GateResults : Start(t, r)

\* ---------------------------------------------------------------- _opa_preflight

\* if OPA_OK: return
PreflightEnter(t) ==
    /\ pc[t] = "preflight"
    /\ tr' = [tr EXCEPT ![t].preflightRun = TRUE]
    /\ pc' = [pc EXCEPT ![t] = IF OPA_OK THEN "engine" ELSE "pf_check"]
    /\ UNCHANGED <<ZTA_ENFORCE, OPA_OK, auth, token, query, exc, resp,
                   pfSeen, engine, log>>

NextCheck(seen) == CHOOSE i \in 1..3 : seen[i] = "none" /\
                       \A j \in 1..(i - 1) : seen[j] # "none"

\* one check of the try block; a failing check leaves through the except
\* clause of _opa_preflight, whose RuntimeError lambda_handler catches
\* (the query is never sent)
PreflightStep(t) ==
    /\ pc[t] = "pf_check"
    /\ LET i == NextCheck(pfSeen[t]) IN
         \E o \in PfOutcomes(PfSteps[i]) :
           /\ pfSeen' = [pfSeen EXCEPT ![t][i] = o]
           /\ LET e == PreflightCheck(PfSteps[i], o) IN
                IF e # NoExc
                THEN /\ exc' = [exc EXCEPT ![t] = PreflightWrap(e)]
                     /\ resp' = [resp EXCEPT ![t] =
                                   HandleException(PreflightWrap(e))]
                     /\ query' = [query EXCEPT ![t] = NoQuery]
                     /\ pc' = [pc EXCEPT ![t] = "done"]
                ELSE /\ pc' = [pc EXCEPT ![t] = IF i = 3 THEN "pf_set"
                                                 ELSE "pf_check"]
                     /\ UNCHANGED <<exc, resp, query>>
    /\ UNCHANGED <<ZTA_ENFORCE, OPA_OK, auth, token, engine, log, tr>>

\* OPA_OK = True
PreflightSet(t) ==
    /\ pc[t] = "pf_set"
    /\ OPA_OK' = TRUE
    /\ pc' = [pc EXCEPT ![t] = "engine"]
    /\ UNCHANGED <<ZTA_ENFORCE, auth, token, query, exc, resp, pfSeen,
                   engine, log, tr>>

\* ---------------------------------------------------------------- _opa_eval

EvalRaise(e, l) == [exc |-> e, val |-> FALSE, log |-> l]
EvalReturn(v)   == [exc |-> NoExc, val |-> v,
                    log |-> <<IF v THEN "allow" ELSE "deny">>]

\* subprocess.run(cmd, ..., timeout=3.5) and what follows it
_opa_eval(o) ==
    IF o.kind = "timeout"
    THEN EvalRaise(Exc("TimeoutExpired", "timed out after 3.5 seconds"), <<>>)
    ELSE IF o.rc # 0
    THEN EvalRaise(Exc("RuntimeError", "OPA error rc"), <<"error">>)
    ELSE IF ParseFault(o.stdout) # NoExc
    THEN EvalRaise(ParseFault(o.stdout), <<>>)
    ELSE EvalReturn(PyBool(o.stdout.value))

\* the answer of lambda_handler to the value _opa_eval returned
PolicyDecision(allowed, claims) ==
    IF ~allowed
    THEN Resp(403, Msg("Denied by policy"))
    ELSE Resp(200, [Msg("ok") EXCEPT !.claims = claims])

\* the engine subprocess of _opa_eval, which takes the query on its stdin,
\* up to the return of lambda_handler
Evaluate(t) ==
    /\ pc[t] = "engine"
    /\ \E o \in EngineOutcomes :
         LET r == _opa_eval(o) IN
           /\ engine' = [engine EXCEPT ![t] = o]
           /\ log' = [log EXCEPT ![t] = log[t] \o r.log]
           /\ exc' = [exc EXCEPT ![t] = r.exc]
           /\ IF r.exc # NoExc
              THEN /\ resp' = [resp EXCEPT ![t] = HandleException(r.exc)]
                   /\ tr' = [tr EXCEPT ![t].engineStarts = @ + 1]
              ELSE /\ resp' = [resp EXCEPT ![t] = PolicyDecision(r.val, token[t])]
                   /\ tr' = [tr EXCEPT ![t].engineStarts = @ + 1,
                                       ![t].verdict = IF r.val THEN "allow"
                                                      ELSE "deny"]
    /\ query' = [query EXCEPT ![t] = NoQuery]
    /\ pc' = [pc EXCEPT ![t] = "done"]
    /\ UNCHANGED <<ZTA_ENFORCE, OPA_OK, auth, token, pfSeen>>

\* lambda_handler has returned; the thread takes the next event
Finish(t) ==
    /\ pc[t] = "done"
    /\ Start(t, [Fresh EXCEPT !.next = "idle"])

Next ==
    \E t \in Threads :
        \/ Baseline(t)
        \/ Invoke(t)
        \/ PreflightEnter(t)
        \/ PreflightStep(t)
        \/ PreflightSet(t)
        \/ Evaluate(t)
        \/ Finish(t)

Spec == Init /\ [][Next]_vars

\* An invocation inside _opa_eval keeps running: each of its steps is a
\* bounded computation or a subprocess.run with a timeout.  Nothing is
\* assumed of an invocation blocked in the key-set fetch, nor of the
\* arrival of events.
Run(t) ==
    \/ PreflightEnter(t)
    \/ PreflightStep(t)
    \/ PreflightSet(t)
    \/ Evaluate(t)

FairSpec == Spec /\ \A t \in Threads : WF_vars(Run(t))

\* ---------------------------------------------------------------- shorthands

Done(t) == pc[t] = "done"
Status(t) == resp[t].statusCode

Info(t) == TokenInfo(token[t])
AllPassed == [i \in 1..3 |-> "ok"]
PreflightFailed(t) == \E i \in 1..3 : pfSeen[t][i] \notin {"none", "ok"}
NoLaterStage(t) ==
    /\ ~tr[t].preflightRun
    /\ tr[t].engineStarts = 0
    /\ engine[t] = NoEngine
    /\ log[t] = <<>>

\* ---------------------------------------------------------------- C1
\* C1: with enforcement on, a returned response has a 2xx status only if it
\* is the 200 of a request whose token was verified (key found, signature
\* good, not expired), whose token_use and client_id bindings both passed,
\* and whose policy engine call returned normally with the verdict allow;
\* every other return, the ones through an except clause included, is
\* non-2xx.
C1_FailClosed ==
    \A t \in Threads :
        (ZTA_ENFORCE /\ Done(t) /\ Status(t) \in 200..299) =>
            /\ Status(t) = 200
            /\ exc[t] = NoExc
            /\ StartsWith(auth[t], BearerPrefix)
            /\ tr[t].keyFetch = "ok" /\ tr[t].verified
            /\ Info(t).parse = "ok" /\ Info(t).kid = "known"
            /\ Info(t).sig = "ok" /\ ~Info(t).expired
            /\ tr[t].bound
            /\ Info(t).token_use = "access"
            /\ Info(t).client_id = APP_CLIENT_ID
            /\ tr[t].engineStarts = 1
            /\ engine[t].kind = "exit" /\ engine[t].rc = 0
            /\ tr[t].verdict = "allow"

C1_Witness ==
    \E t, u \in Threads :
        /\ ZTA_ENFORCE
        /\ Done(t) /\ Status(t) = 200 /\ tr[t].verdict = "allow"
        /\ Done(u) /\ exc[u] # NoExc /\ Status(u) = 500

\* ---------------------------------------------------------------- C2
\* C2: whenever the engine subprocess of a request timed out or exited
\* non-zero, the response of that request is 403.
C2_EngineFailureDenies403 ==
    \A t \in Threads :
        (/\ Done(t)
         /\ \/ engine[t].kind = "timeout"
            \/ engine[t].kind = "exit" /\ engine[t].rc # 0)
        => Status(t) = 403

\* ---------------------------------------------------------------- C3
\* C3: whenever a check of the preflight run by a request failed, the
\* response of that request is 403.
C3_PreflightFailureDenies403 ==
    \A t \in Threads :
        (Done(t) /\ PreflightFailed(t)) => Status(t) = 403

\* ---------------------------------------------------------------- C4
\* C4: a request whose bearer token parses and names an issuer whose key
\* set was fetched, but whose signature is tampered, whose key identifier
\* is not in the key set, or which is expired, is answered 401 and starts
\* no policy engine call.
C4_VerificationFailureIs401 ==
    \A t \in Threads :
        (/\ ZTA_ENFORCE /\ Done(t)
         /\ StartsWith(auth[t], BearerPrefix)
         /\ Info(t).parse = "ok" /\ Info(t).iss
         /\ tr[t].keyFetch = "ok"
         /\ \/ Info(t).sig # "ok"
            \/ Info(t).kid # "known"
            \/ Info(t).expired)
        => (Status(t) = 401 /\ NoLaterStage(t))

\* ---------------------------------------------------------------- C5
\* C5: when the engine exits 0 with a stdout that is unparsable, lacks
\* result[0].expressions[0].value, or carries there a value that is not a
\* JSON boolean, the request is not allowed: no allow verdict, no 200.
C5_MalformedResultNeverAllows ==
    \A t \in Threads :
        (/\ Done(t)
         /\ engine[t].kind = "exit" /\ engine[t].rc = 0
         /\ \/ engine[t].stdout.shape # "full"
            \/ engine[t].stdout.value.t # "bool")
        => (tr[t].verdict # "allow" /\ Status(t) # 200)

\* ---------------------------------------------------------------- C6
\* C6: with enforcement on, a request whose Authorization value is absent
\* or lacks the "Bearer " prefix is answered 401 with no token parse, no
\* verification, no binding test and no policy engine activity; a request
\* whose verified token has token_use other than "access" or a client_id
\* other than the configured one is answered 401 with no policy engine
\* activity.
C6_EarlyGatesStopThePipeline ==
    \A t \in Threads :
        (ZTA_ENFORCE /\ pc[t] # "idle") =>
            /\ ~StartsWith(auth[t], BearerPrefix) =>
                   /\ Done(t) /\ Status(t) = 401
                   /\ ~tr[t].parseRun /\ ~tr[t].verifyRun /\ ~tr[t].bindRun
                   /\ NoLaterStage(t)
            /\ (/\ tr[t].verified
                /\ \/ Info(t).token_use # "access"
                   \/ Info(t).client_id # APP_CLIENT_ID) =>
                   /\ Done(t) /\ Status(t) = 401
                   /\ NoLaterStage(t)

C6_Witness ==
    \E t, u \in Threads :
        /\ ZTA_ENFORCE
        /\ Done(t) /\ auth[t] # <<>> /\ ~StartsWith(auth[t], BearerPrefix)
        /\ Status(t) = 401
        /\ Done(u) /\ tr[u].verified /\ Info(u).client_id # APP_CLIENT_ID
        /\ Status(u) = 401

\* ---------------------------------------------------------------- C7
\* C7: two requests that ended in a caught exception of the same class get
\* the same response body, whatever the exception messages.
C7_BodyIndependentOfExceptionText ==
    \A t, u \in Threads :
        (/\ Done(t) /\ Done(u)
         /\ exc[t] # NoExc
         /\ exc[t].type = exc[u].type)
        => resp[t].body = resp[u].body

\* ---------------------------------------------------------------- C8
\* C8: with enforcement off every request is answered 200, and no token is
\* parsed or verified, no binding is tested and no policy engine activity
\* takes place.
C8_BaselineAlways200 ==
    \A t \in Threads :
        (~ZTA_ENFORCE /\ Done(t)) =>
            /\ Status(t) = 200
            /\ ~tr[t].parseRun /\ ~tr[t].verifyRun /\ ~tr[t].bindRun
            /\ NoLaterStage(t)

\* ---------------------------------------------------------------- C9
\* C9: a request whose _opa_eval started the engine subprocess has printed
\* exactly one decision record for it.
C9_OneDecisionRecordPerEngineRun ==
    \A t \in Threads :
        Done(t) => Len(log[t]) = tr[t].engineStarts

\* ---------------------------------------------------------------- C10
\* C10: in every step, OPA_OK turns true only by an invocation that has
\* seen all three checks pass; the step of a failing check leaves OPA_OK as
\* it was; OPA_OK once true stays true; and an invocation that enters
\* _opa_preflight with OPA_OK true goes on to the engine with no check run.
C10_Step ==
    /\ (~OPA_OK /\ OPA_OK') =>
           \E t \in Threads :
               /\ pc[t] = "pf_set" /\ pc'[t] = "engine"
               /\ pfSeen[t] = AllPassed
    /\ \A t \in Threads :
           (PreflightFailed(t)' /\ ~PreflightFailed(t)) =>
               (OPA_OK' = OPA_OK /\ pc'[t] = "done")
    /\ OPA_OK => OPA_OK'
    /\ \A t \in Threads :
           (OPA_OK /\ pc[t] = "preflight" /\ pc'[t] # "preflight") =>
               (pc'[t] = "engine" /\ pfSeen'[t] = NoChecks)

C10_ReadyOnlyAfterAllChecks == [][C10_Step]_vars

C10_Witness ==
    \E t, u \in Threads :
        /\ OPA_OK
        /\ pfSeen[t] = AllPassed
        /\ Done(u) /\ PreflightFailed(u)

\* ---------------------------------------------------------------- C11
\* C11: an invocation that has started always returns, and when its key-set
\* fetch, its preflight "version" call or its engine call ran out of time
\* the response it returns is non-2xx.
Running(t) == pc[t] \notin {"idle", "done"}

TimedOut(t) ==
    \/ tr[t].keyFetch \in {"timeout", "hang"}
    \/ pfSeen[t][2] = "timeout"
    \/ engine[t].kind = "timeout"

C11_HangEndsInDenial ==
    \A t \in Threads :
        /\ Running(t) ~> Done(t)
        /\ [](Done(t) /\ TimedOut(t) => Status(t) \notin 200..299)

====
